---- MODULE Spec2Model ----
(***************************************************************************)
(* Token-bucket rate limiter of backend/app/middleware/rate_limit.py       *)
(* (RateLimitMiddleware): the bucket table, _check_rate_limit,             *)
(* reset_bucket, _get_identifier and dispatch.                             *)
(*                                                                         *)
(* Numbers.  The code keeps token counts and clock readings as Python      *)
(* floats.  Here a clock reading is a whole number of seconds and a token  *)
(* count is an exact rational kept as an integer number of sixtieths of a  *)
(* token (Tok(1) = 60), so that time_elapsed * (rate_limit / 60.0) is an   *)
(* integer: the arithmetic is that of the code without IEEE rounding.      *)
(***************************************************************************)
EXTENDS Integers, FiniteSets, Sequences, Bags, TLC

VARIABLES
    rate_limit,      \* self.rate_limit = settings.rate_limit_per_minute
    buckets,         \* self.buckets: identifier -> (token_count, last_refill_time)
    clock,           \* the value time.time() returns
    burst,           \* history: the identifier whose bucket was created last
                     \* and how far the calls on it have followed the run
                     \* "exhaust in zero time, wait, call again" (see
                     \* BurstAfterCheck)
    shown,           \* history: per identifier, X-RateLimit-Remaining of its
                     \* latest response, -1 once refilled or reset since
    inflight,        \* dispatch calls suspended at `await call_next(request)`
    last,            \* history: the most recent call and what it returned
    chain,           \* the request travelling through the middleware chain:
                     \* the layer that has control, request.state.request_id,
                     \* what travels back up, the log and (history) the
                     \* layers entered
    db,              \* the rows of the tables the services read and write
    sessions,        \* service calls suspended between their query and
                     \* their commit
    call,            \* history: the most recent service call that returned
                     \* or raised, its outcome and the rows it found
    threads          \* threads inside _check_rate_limit, each with the
                     \* locals it holds, and (history) the calls admitted
                     \* per identifier and clock value

\* The state of the rate limiter, and the state of everything else.
vars_limiter == <<rate_limit, buckets, clock, burst, shown, inflight, last>>

vars_storage == <<db, sessions, call, threads>>

vars_other == <<chain, db, sessions, call, threads>>

vars == <<rate_limit, buckets, clock, burst, shown, inflight, last, chain,
          db, sessions, call, threads>>

(***************************************************************************)
(* Bounds of the model.                                                    *)
(***************************************************************************)
MaxRateLimit == 2     \* rate_limit_per_minute ranges over 1..MaxRateLimit
MaxInstant == 2       \* time.time() ranges over 0, 30, ..., 30 * MaxInstant seconds
MaxBuckets == 2       \* identifiers that get a bucket
MaxInFlight == 2      \* dispatch calls suspended in call_next at one time

Instants == {30 * k : k \in 0..MaxInstant}

UserIds == {"abc"}
Hosts == {"10.0.0.5"}
Paths == {"/health", "/metrics", "/api/test"}

\* An optional value: <<>> is None / attribute absent, <<v>> is v.
Option(S) == {<<>>} \cup {<<v>> : v \in S}

\* A request as dispatch sees it: url.path, state.user_id (absent unless an
\* earlier layer set it) and client (None or an address with a host).
Requests == [path : Paths, user_id : Option(UserIds), client : Option(Hosts)]

(***************************************************************************)
(* Arithmetic.                                                             *)
(***************************************************************************)
Tok(n) == n * 60

min(a, b) == IF a < b THEN a ELSE b

max(a, b) == IF a > b THEN a ELSE b

\* int(x) of a token count: truncation toward zero.
int(tokens) == IF tokens >= 0 THEN tokens \div Tok(1) ELSE -((-tokens) \div Tok(1))

\* (variant) tokens per minute taken for tokens per half minute
refill_rate_doubled == Tok(rate_limit) \div 30

\* self.refill_rate = self.rate_limit / 60.0 tokens per second, in sixtieths
\* of a token per second.
refill_rate == Tok(rate_limit) \div 60

(***************************************************************************)
(* _get_identifier                                                         *)
(***************************************************************************)
\* (variant) the client address preferred to the user id
get_identifier_ip_first(request) ==
    IF request.client # <<>>
    THEN "ip:" \o request.client[1]
    ELSE IF request.user_id # <<>> THEN "user:" \o request.user_id[1]
         ELSE "ip:unknown"

get_identifier(request) ==
    IF request.user_id # <<>>
    THEN "user:" \o request.user_id[1]
    ELSE LET client_host == IF request.client # <<>> THEN request.client[1]
                            ELSE "unknown"
         IN  "ip:" \o client_host

Identifiers == {get_identifier(r) : r \in Requests}

(***************************************************************************)
(* The bucket table (a defaultdict).                                       *)
(***************************************************************************)
Bucket(tokens, last_refill) == [tokens |-> tokens, last_refill |-> last_refill]

\* (variant) a new bucket dated from the epoch
default_factory_epoch(created) == Bucket(Tok(rate_limit), 0)

\* The default factory: (float(settings.rate_limit_per_minute), time.time()).
default_factory(created) == Bucket(Tok(rate_limit), created)

\* self.buckets[identifier] read: the stored entry, or the factory's.
Lookup(identifier, created) ==
    IF identifier \in DOMAIN buckets THEN buckets[identifier]
    ELSE default_factory(created)

\* (variant) one entry shared by every identifier
Store_shared(identifier, value) ==
    [i \in DOMAIN buckets \cup {identifier} |-> value]

\* self.buckets[identifier] = value
Store(identifier, value) ==
    [i \in DOMAIN buckets \cup {identifier} |->
        IF i = identifier THEN value ELSE buckets[i]]

\* The table grows without limit; the model lets MaxBuckets identifiers in.
HasRoom(identifier) ==
    \/ identifier \in DOMAIN buckets
    \/ Cardinality(DOMAIN buckets) < MaxBuckets

(***************************************************************************)
(* _check_rate_limit, as a function of the bucket read and the clock.      *)
(***************************************************************************)
\* (variant) `tokens <= 1.0` for `tokens < 1.0`
check_rate_limit_le(bucket, current_time) ==
    LET time_elapsed == current_time - bucket.last_refill
        tokens_to_add == time_elapsed * refill_rate
        tokens == min(Tok(rate_limit), bucket.tokens + tokens_to_add)
    IN  IF tokens <= Tok(1)
        THEN [bucket |-> Bucket(tokens, current_time), ret |-> FALSE]
        ELSE [bucket |-> Bucket(tokens - Tok(1), current_time), ret |-> TRUE]

\* (variant) the elapsed time taken with the wrong sign
check_rate_limit_backwards(bucket, current_time) ==
    LET time_elapsed == bucket.last_refill - current_time
        tokens_to_add == time_elapsed * refill_rate
        tokens == min(Tok(rate_limit), bucket.tokens + tokens_to_add)
    IN  IF tokens < Tok(1)
        THEN [bucket |-> Bucket(tokens, current_time), ret |-> FALSE]
        ELSE [bucket |-> Bucket(tokens - Tok(1), current_time), ret |-> TRUE]

\* (variant) a rejected call dates the bucket anew without the refill
check_rate_limit_forgetful(bucket, current_time) ==
    LET time_elapsed == current_time - bucket.last_refill
        tokens_to_add == time_elapsed * refill_rate
        tokens == min(Tok(rate_limit), bucket.tokens + tokens_to_add)
    IN  IF tokens < Tok(1)
        THEN [bucket |-> Bucket(bucket.tokens, current_time), ret |-> FALSE]
        ELSE [bucket |-> Bucket(tokens - Tok(1), current_time), ret |-> TRUE]

\* (variant) the refilled count not capped at the capacity
check_rate_limit_uncapped(bucket, current_time) ==
    LET time_elapsed == current_time - bucket.last_refill
        tokens_to_add == time_elapsed * refill_rate
        tokens == bucket.tokens + tokens_to_add
    IN  IF tokens < Tok(1)
        THEN [bucket |-> Bucket(tokens, current_time), ret |-> FALSE]
        ELSE [bucket |-> Bucket(tokens - Tok(1), current_time), ret |-> TRUE]

check_rate_limit(bucket, current_time) ==
    LET time_elapsed == current_time - bucket.last_refill
        tokens_to_add == time_elapsed * refill_rate
        tokens == min(Tok(rate_limit), bucket.tokens + tokens_to_add)
    IN  IF tokens < Tok(1)
        THEN [bucket |-> Bucket(tokens, current_time), ret |-> FALSE]
        ELSE [bucket |-> Bucket(tokens - Tok(1), current_time), ret |-> TRUE]

\* reset_bucket's new entry
reset_value(now) == Bucket(Tok(rate_limit), now)

(***************************************************************************)
(* History bookkeeping.                                                    *)
(***************************************************************************)
NoResponse == <<>>

\* X-RateLimit-Remaining as a response showed it; overlapped: another
\* dispatch call of the identifier was past its check and not yet answered.
Shown(remaining, overlapped) == [remaining |-> remaining, overlapped |-> overlapped]

NoShown == Shown(-1, FALSE)

\* The record of a call: what it was called with, the clock value it read
\* (now), what _check_rate_limit returned (ret), whether call_next was
\* invoked (forwarded), the response returned and the shown[identifier] it
\* found (shown_before).

Call(op, request, identifier, now, ret, forwarded, response, shown_before) ==
    [op |-> op, request |-> request, identifier |-> identifier, now |-> now,
     ret |-> ret, forwarded |-> forwarded,
     response |-> response, shown_before |-> shown_before]

\* self.buckets.get(identifier) as an optional value.
Stored(identifier) ==
    IF identifier \in DOMAIN buckets THEN <<buckets[identifier]>> ELSE <<>>

\* The run of direct _check_rate_limit calls on burst.identifier, burst.calls
\* being
\*   1 .. rate_limit + 1   that many calls, all reading the clock value at
\*                         which the first of them created the bucket;
\*   rate_limit + 2        then one call burst.waited > 0 seconds later;
\*   rate_limit + 3        then one more call at that same instant;
\*   0                     anything else.
Burst(identifier, calls, waited) ==
    [identifier |-> identifier, calls |-> calls, waited |-> waited]

NoBurst == Burst(<<>>, 0, 0)

BurstAfterCheck(identifier, current_time, created) ==
    IF identifier \notin DOMAIN buckets
    THEN IF created = current_time THEN Burst(<<identifier>>, 1, 0) ELSE burst
    ELSE IF burst.identifier # <<identifier>> THEN burst
    ELSE LET n == burst.calls
             t == buckets[identifier].last_refill
         IN  IF n \in 1..rate_limit /\ current_time = t
             THEN Burst(<<identifier>>, n + 1, 0)
             ELSE IF n \in {rate_limit, rate_limit + 1} /\ current_time > t
                  THEN Burst(<<identifier>>, rate_limit + 2, current_time - t)
             ELSE IF n = rate_limit + 2 /\ current_time = t
                  THEN Burst(<<identifier>>, rate_limit + 3, burst.waited)
             ELSE NoBurst

\* The run ends when something other than a direct call touches the bucket.
BurstAfterInterruption(identifier) ==
    IF burst.identifier = <<identifier>> THEN NoBurst ELSE burst

\* shown[identifier] stays while the bucket is neither refilled nor reset.
ShownAfterCheck(identifier, current_time) ==
    IF identifier \in DOMAIN buckets /\ current_time = buckets[identifier].last_refill
    THEN shown[identifier]
    ELSE NoShown


(***************************************************************************)
(* Operations.                                                             *)
(***************************************************************************)
\* One execution of _check_rate_limit(identifier): current_time is read
\* first; a missing bucket is then created by the factory, which reads the
\* clock again (created); the entry is overwritten with the result.
check_result(identifier, current_time, created) ==
    check_rate_limit(Lookup(identifier, created), current_time)

\* (variant) the write of an admitted call put off until after its await
RunCheck_deferred(identifier, current_time, created) ==
    /\ HasRoom(identifier)
    /\ current_time <= created /\ created <= current_time + 30
    /\ identifier \in DOMAIN buckets => created = current_time
    /\ buckets' = Store(identifier,
                        IF check_result(identifier, current_time, created).ret
                        THEN Lookup(identifier, created)
                        ELSE check_result(identifier, current_time, created).bucket)
    /\ shown' = [shown EXCEPT ![identifier] = ShownAfterCheck(identifier, current_time)]
    /\ clock' = created

RunCheck(identifier, current_time, created) ==
    /\ HasRoom(identifier)
    /\ current_time <= created /\ created <= current_time + 30
    /\ identifier \in DOMAIN buckets => created = current_time
    /\ buckets' = Store(identifier, check_result(identifier, current_time, created).bucket)
    /\ shown' = [shown EXCEPT ![identifier] = ShownAfterCheck(identifier, current_time)]
    /\ clock' = created

\* A direct call of _check_rate_limit(identifier).
CheckRateLimit(identifier) ==
    \E current_time \in {clock}, created \in Instants :
        /\ RunCheck(identifier, current_time, created)
        /\ burst' = BurstAfterCheck(identifier, current_time, created)
        /\ last' = Call("check", <<>>, <<identifier>>, current_time,
                        check_result(identifier, current_time, created).ret,
                        FALSE, NoResponse, NoShown)
        /\ UNCHANGED <<rate_limit, inflight>>

\* reset_bucket(identifier)
ResetBucket(identifier) ==
    LET now == clock IN
        /\ HasRoom(identifier)
        /\ buckets' = Store(identifier, reset_value(now))
        /\ last' = Call("reset", <<>>, <<identifier>>, now,
                        FALSE, FALSE, NoResponse, NoShown)
        /\ burst' = BurstAfterInterruption(identifier)
        /\ shown' = [shown EXCEPT ![identifier] = NoShown]
        /\ UNCHANGED <<rate_limit, clock, inflight>>

(***************************************************************************)
(* dispatch                                                                *)
(***************************************************************************)
\* (variant) the metrics path left out
BypassPaths_health_only == {"/health"}

BypassPaths == {"/health", "/metrics"}

\* Statuses the inner handler answers with.
InnerStatuses == {200, 500}

Response(status_code, content, headers) ==
    [status_code |-> status_code, content |-> content, headers |-> headers]

\* response.headers[name] = value
SetHeader(headers, name, value) ==
    {h \in headers : h[1] # name} \cup {<<name, value>>}

\* (variant) the retry hint in the body only
too_many_requests_no_header ==
    Response(429,
             [detail |-> "Rate limit exceeded. Maximum " \o ToString(rate_limit)
                            \o " requests per minute.",
              retry_after |-> 60],
             {})

\* The JSONResponse of a rejected request.
too_many_requests ==
    Response(429,
             [detail |-> "Rate limit exceeded. Maximum " \o ToString(rate_limit)
                            \o " requests per minute.",
              retry_after |-> 60],
             {<<"Retry-After", "60">>})

\* What the inner handler returns.
inner_response(status_code) == Response(status_code, <<>>, {})

\* (variant) round(...) for int(...)
remaining_header_rounded(identifier) ==
    max(0, (buckets[identifier].tokens + Tok(1) \div 2) \div Tok(1))

\* remaining = int(self.buckets[identifier][0]); max(0, remaining)
remaining_header(identifier) == max(0, int(buckets[identifier].tokens))

\* The rate limit headers added to the inner handler's response.
with_rate_limit_headers(response, identifier, now) ==
    LET h1 == SetHeader(response.headers, "X-RateLimit-Limit", ToString(rate_limit))
        h2 == SetHeader(h1, "X-RateLimit-Remaining", ToString(remaining_header(identifier)))
        h3 == SetHeader(h2, "X-RateLimit-Reset", ToString(now + 60))
    IN  Response(response.status_code, response.content, h3)

\* A dispatch call suspended at an `await call_next(request)`: at the bypass
\* return, or at the call whose response gets the headers.
Frame(pc, identifier) == [pc |-> pc, identifier |-> identifier]

Suspend(frame) ==
    /\ BagCardinality(inflight) < MaxInFlight
    /\ inflight' = inflight (+) SetToBag({frame})

\* dispatch(request), up to its return or its await.
DispatchBegin(request) ==
    IF request.path \in BypassPaths
    THEN /\ Suspend(Frame("bypass", <<>>))
         /\ last' = Call("dispatch", <<request>>, <<>>, clock,
                         FALSE, TRUE, NoResponse, NoShown)
         /\ UNCHANGED <<rate_limit, buckets, clock, burst, shown>>
    ELSE LET identifier == get_identifier(request)
         IN  \E current_time \in {clock}, created \in Instants :
                 /\ RunCheck(identifier, current_time, created)
                 /\ burst' = BurstAfterInterruption(identifier)
                 /\ IF ~check_result(identifier, current_time, created).ret
                    THEN /\ last' = Call("dispatch", <<request>>, <<identifier>>,
                                         current_time, FALSE, FALSE,
                                         <<too_many_requests>>, NoShown)
                         /\ UNCHANGED inflight
                    ELSE /\ Suspend(Frame("limited", <<identifier>>))
                         /\ last' = Call("dispatch", <<request>>, <<identifier>>,
                                         current_time, TRUE, TRUE,
                                         NoResponse, NoShown)
                 /\ UNCHANGED rate_limit

\* Another dispatch call of the identifier is suspended besides this one.
Overlaps(frame) == CopiesIn(frame, inflight) > 1

\* call_next returns `response` and dispatch runs to its return.
DispatchReturn(frame, response) ==
    /\ BagIn(frame, inflight)
    /\ inflight' = inflight (-) SetToBag({frame})
    /\ IF frame.pc = "bypass"
       THEN /\ last' = Call("respond", <<>>, <<>>, clock, FALSE, FALSE,
                            <<response>>, NoShown)
            /\ UNCHANGED shown
       ELSE LET identifier == frame.identifier[1]
                now == clock
            IN  /\ last' = Call("respond", <<>>, frame.identifier, now,
                                TRUE, FALSE,
                                <<with_rate_limit_headers(response,
                                                          identifier, now)>>,
                                shown[identifier])
                /\ shown' = [shown EXCEPT ![identifier] =
                                Shown(remaining_header(identifier), Overlaps(frame))]
    /\ UNCHANGED <<rate_limit, buckets, clock, burst>>

\* The inner handler answers with one of its statuses.
DispatchEnd(frame) ==
    \E status_code \in InnerStatuses :
        DispatchReturn(frame, inner_response(status_code))

(***************************************************************************)
(* The wall clock behind time.time().                                      *)
(***************************************************************************)
\* Time passes.
Tick ==
    /\ \E t \in Instants : t > clock /\ clock' = t
    /\ UNCHANGED <<rate_limit, buckets, burst, shown, inflight, last>>

\* The system clock is set back: time.time() is not monotonic.
SetBack ==
    /\ \E t \in Instants : t < clock /\ clock' = t
    /\ UNCHANGED <<rate_limit, buckets, burst, shown, inflight, last>>

\* The limiter driven through its two bucket operations on two keys, as the
\* unit tests drive it.
TestIdentifiers == {"user:abc", "ip:10.0.0.5"}

Frames == {Frame("bypass", <<>>)} \cup {Frame("limited", <<i>>) : i \in Identifiers}

(***************************************************************************)
(* _check_rate_limit run by threads in parallel: nothing orders the        *)
(* statements of one call against those of another, so each statement     *)
(* that touches the clock or the table is a step of its own.               *)
(***************************************************************************)
Threads == {"t1", "t2"}

\* The locals of one call: current_time, the (tokens, last_refill) it read
\* (seen), and (history) whether another call with the same current_time
\* that had read the same entry has written it back since (raced).
Thread(pc, identifier, current_time, seen, raced) ==
    [pc |-> pc, identifier |-> identifier, current_time |-> current_time,
     seen |-> seen, raced |-> raced]

Idle == Thread("idle", <<>>, 0, <<>>, FALSE)

\* history, kept per identifier by the specifications that count:
\*   admitted   how many calls returned True, per value of current_time
\*              (counted up to MaxRateLimit + 2);
\*   emptied    since the latest call that returned True: the current_time
\*              of that call if it left no token (at), whether a call has
\*              returned False since (rejected), and these two as they
\*              were before that call (before).
Emptied(at, rejected, before) == [at |-> at, rejected |-> rejected, before |-> before]

NeverEmptied == Emptied(<<>>, FALSE, <<>>)

NoThreads ==
    [at |-> [t \in Threads |-> Idle],
     admitted |-> [i \in Identifiers |-> [now \in Instants |-> 0]],
     emptied |-> [i \in Identifiers |-> NeverEmptied]]

\* current_time = time.time()
ThreadBegin(t, identifier) ==
    /\ threads.at[t].pc = "idle"
    /\ HasRoom(identifier)
    /\ threads' = [threads EXCEPT
                     !.at[t] = Thread("timed", <<identifier>>, clock, <<>>, FALSE)]
    /\ UNCHANGED <<rate_limit, buckets, clock, burst, shown, inflight, last>>

\* tokens, last_refill = self.buckets[identifier]: a missing key is filled
\* in by the factory, which reads the clock now.
ThreadRead(t) ==
    LET identifier == threads.at[t].identifier[1]
        value == Lookup(identifier, clock)
    IN  /\ threads.at[t].pc = "timed"
        /\ HasRoom(identifier)
        /\ buckets' = Store(identifier, value)
        /\ threads' = [threads EXCEPT !.at[t].pc = "read",
                                      !.at[t].seen = <<value>>]
        /\ UNCHANGED <<rate_limit, clock, burst, shown, inflight, last>>

\* (variant) the bucket read again under a lock when the result is computed
thread_result_locked(t) ==
    check_rate_limit(buckets[threads.at[t].identifier[1]],
                     threads.at[t].current_time)

\* The refill, the comparison and the value to store, from the locals.
thread_result(t) ==
    check_rate_limit(threads.at[t].seen[1], threads.at[t].current_time)

AdmittedAfter(identifier, current_time, ret) ==
    IF ~ret THEN threads.admitted
    ELSE [threads.admitted EXCEPT ![identifier][current_time] =
             min(@ + 1, MaxRateLimit + 2)]

\* The same, keeping the count of one value of current_time only.
AdmittedTogether(identifier, current_time, ret) ==
    [AdmittedAfter(identifier, current_time, ret) EXCEPT ![identifier] =
        [now \in Instants |-> IF ret /\ now # current_time THEN 0 ELSE @[now]]]

EmptiedAfter(identifier, current_time, ret, tokens) ==
    LET e == threads.emptied[identifier]
    IN  [threads.emptied EXCEPT ![identifier] =
            IF ~ret THEN Emptied(e.at, TRUE, e.before)
            ELSE Emptied(IF tokens = 0 THEN <<current_time>> ELSE <<>>, FALSE,
                         <<[at |-> e.at, rejected |-> e.rejected]>>)]

\* The history of a serial call, taken from its record in last'.
Counting ==
    IF last'.identifier = <<>>
    THEN UNCHANGED threads
    ELSE LET identifier == last'.identifier[1]
         IN  threads' = [threads EXCEPT
                 !.admitted = AdmittedAfter(identifier, last'.now, last'.ret),
                 !.emptied = EmptiedAfter(identifier, last'.now, last'.ret,
                                          buckets'[identifier].tokens)]

\* self.buckets[identifier] = (tokens, current_time); return
ThreadWrite(t) ==
    LET identifier == threads.at[t].identifier[1]
        current_time == threads.at[t].current_time
        result == thread_result(t)
    IN  /\ threads.at[t].pc = "read"
        /\ buckets' = Store(identifier, result.bucket)
        /\ last' = Call("check", <<>>, <<identifier>>, current_time,
                        result.ret, FALSE, NoResponse, NoShown)
        /\ threads' =
              [at |-> [u \in Threads |->
                          IF u = t THEN Idle
                          ELSE IF /\ threads.at[u].pc = "read"
                                  /\ threads.at[u].seen = threads.at[t].seen
                                  /\ threads.at[u].identifier = <<identifier>>
                                  /\ threads.at[u].current_time = current_time
                               THEN [threads.at[u] EXCEPT !.raced = TRUE]
                               ELSE threads.at[u]],
               admitted |-> AdmittedTogether(identifier, current_time, result.ret),
               emptied |-> threads.emptied]
        /\ UNCHANGED <<rate_limit, clock, burst, shown, inflight>>

(***************************************************************************)
(* The middleware chain of the application: one request travelling down    *)
(* through the layers to the router and its answer travelling back up.     *)
(***************************************************************************)
\* The add_middleware calls of the application, in program order
\* (configure_cors first, then the three calls of main.py).
Registration ==
    <<"CORSMiddleware", "ErrorHandlerMiddleware", "LoggingMiddleware",
      "RateLimitMiddleware">>

\* (variant) a registration that appends: first added is outermost
add_middleware_append(user_middleware, cls) == Append(user_middleware, cls)

\* app.add_middleware(cls): self.user_middleware.insert(0, Middleware(cls))
add_middleware(user_middleware, cls) == <<cls>> \o user_middleware

RECURSIVE Registered(_)
Registered(n) ==
    IF n = 0 THEN <<>> ELSE add_middleware(Registered(n - 1), Registration[n])

\* The stack the application builds, outermost layer first, and the router
\* below the innermost layer.
user_middleware == Registered(Len(Registration))

Layers == user_middleware \o <<"router">>

\* Values uuid.uuid4() returns.
RequestIds == {"r1", "r2"}

\* Exceptions a route handler raises: type(exc).__name__ and str(exc).
Exceptions ==
    [type : {"ValueError", "ZeroDivisionError"}, message : {"boom", "bang"}]

\* What travels up the chain: a response returned or an exception raised.
Returned(response) == [kind |-> "response", value |-> response]

Raised(exc) == [kind |-> "exception", value |-> exc]

LogEvent(event, request_id, about) ==
    [event |-> event, request_id |-> request_id, about |-> about]

\* Requests as they arrive from the network: no layer has set state.user_id.
Arriving == {r \in Requests : r.user_id = <<>>}

NoChain ==
    [request |-> <<>>, request_id |-> <<>>, at |-> 0, going |-> "up",
     result |-> <<>>, log |-> <<>>, trail |-> <<>>]

At(layer, going) ==
    /\ chain.request # <<>>
    /\ chain.going = going
    /\ chain.at \in 1..Len(Layers)
    /\ Layers[chain.at] = layer

\* The layer awaits call_next(request).
CallNext(c, layer) ==
    [c EXCEPT !.at = @ + 1, !.trail = Append(@, layer)]

\* The layer returns or raises to the layer above it.
Unwind(c, result) ==
    [c EXCEPT !.at = @ - 1, !.going = "up", !.result = <<result>>]

\* The server hands a request to the outermost layer.
Receive(request) ==
    /\ chain.at = 0
    /\ chain' = [NoChain EXCEPT !.request = <<request>>, !.at = 1,
                                !.going = "down"]
    /\ UNCHANGED vars_limiter

\* RateLimitMiddleware.dispatch up to its return or its await.
EnterRateLimit ==
    /\ At("RateLimitMiddleware", "down")
    /\ DispatchBegin(chain.request[1])
    /\ chain' = IF last'.forwarded
                THEN CallNext(chain, "RateLimitMiddleware")
                ELSE Unwind([chain EXCEPT !.trail =
                                 Append(@, "RateLimitMiddleware")],
                            Returned(last'.response[1]))

\* RateLimitMiddleware.dispatch from its await on: the response gets the
\* headers; an exception of call_next leaves the call.
LeaveRateLimit ==
    /\ At("RateLimitMiddleware", "up")
    /\ \E frame \in Frames :
          /\ BagIn(frame, inflight)
          /\ IF chain.result[1].kind = "response"
             THEN /\ DispatchReturn(frame, chain.result[1].value)
                  /\ chain' = Unwind(chain, Returned(last'.response[1]))
             ELSE /\ inflight' = inflight (-) SetToBag({frame})
                  /\ last' = Call("raise", <<>>, frame.identifier, clock,
                                  FALSE, FALSE, NoResponse, NoShown)
                  /\ chain' = Unwind(chain, chain.result[1])
                  /\ UNCHANGED <<rate_limit, buckets, clock, burst, shown>>

\* LoggingMiddleware.dispatch up to its await: the correlation id is
\* generated, stored on request.state and logged with the request.
EnterLogging ==
    /\ At("LoggingMiddleware", "down")
    /\ \E request_id \in RequestIds :
          chain' = CallNext(
              [chain EXCEPT !.request_id = <<request_id>>,
                            !.log = Append(@, LogEvent("http_request", request_id,
                                                       chain.request[1].path))],
              "LoggingMiddleware")
    /\ UNCHANGED vars_limiter

\* (variant) the message of the exception as the detail of the answer
error_response_with_message(state_request_id, exc) ==
    Response(500,
             [detail |-> exc.message,
              request_id |-> IF state_request_id = <<>> THEN "unknown"
                             ELSE state_request_id[1],
              error_type |-> exc.type],
             {})

\* The JSONResponse ErrorHandlerMiddleware builds for an exception.
error_response(state_request_id, exc) ==
    Response(500,
             [detail |-> "An unexpected error occurred. Please try again later.",
              request_id |-> IF state_request_id = <<>> THEN "unknown"
                             ELSE state_request_id[1],
              error_type |-> exc.type],
             {})

\* LoggingMiddleware.dispatch from its await on: the response is logged and
\* gets the X-Request-ID header; an exception is logged and raised again.
LeaveLogging ==
    /\ At("LoggingMiddleware", "up")
    /\ LET request_id == chain.request_id[1]
           result == chain.result[1]
       IN  chain' =
             IF result.kind = "response"
             THEN Unwind([chain EXCEPT !.log =
                              Append(@, LogEvent("http_response", request_id,
                                                 result.value.status_code))],
                         Returned(Response(result.value.status_code,
                                           result.value.content,
                                           SetHeader(result.value.headers,
                                                     "X-Request-ID", request_id))))
             ELSE Unwind([chain EXCEPT !.log =
                              Append(@, LogEvent("http_error", request_id,
                                                 result.value))],
                         result)
    /\ UNCHANGED vars_limiter

\* ErrorHandlerMiddleware.dispatch up to its await.
EnterErrorHandler ==
    /\ At("ErrorHandlerMiddleware", "down")
    /\ chain' = CallNext(chain, "ErrorHandlerMiddleware")
    /\ UNCHANGED vars_limiter

\* ErrorHandlerMiddleware.dispatch from its await on: a response is
\* returned as it is; an exception is logged and answered with the 500.
LeaveErrorHandler ==
    /\ At("ErrorHandlerMiddleware", "up")
    /\ LET result == chain.result[1]
           request_id == IF chain.request_id = <<>> THEN "unknown"
                         ELSE chain.request_id[1]
       IN  chain' =
             IF result.kind = "response"
             THEN Unwind(chain, result)
             ELSE Unwind([chain EXCEPT !.log =
                              Append(@, LogEvent("unhandled_exception",
                                                 request_id, result.value))],
                         Returned(error_response(chain.request_id, result.value)))
    /\ UNCHANGED vars_limiter

\* CORSMiddleware on a request without an Origin header: passed on unchanged.
EnterCORS ==
    /\ At("CORSMiddleware", "down")
    /\ chain' = CallNext(chain, "CORSMiddleware")
    /\ UNCHANGED vars_limiter

LeaveCORS ==
    /\ At("CORSMiddleware", "up")
    /\ chain' = Unwind(chain, chain.result[1])
    /\ UNCHANGED vars_limiter

\* The route handler returns a response or raises.
Route ==
    /\ At("router", "down")
    /\ \/ \E status_code \in InnerStatuses :
             chain' = Unwind([chain EXCEPT !.trail = Append(@, "router")],
                             Returned(inner_response(status_code)))
       \/ \E exc \in Exceptions :
             chain' = Unwind([chain EXCEPT !.trail = Append(@, "router")],
                             Raised(exc))
    /\ UNCHANGED vars_limiter

(***************************************************************************)
(* The tables behind the services, as the migrations create them: primary  *)
(* keys make a table a function of its ids, the unique constraint on       *)
(* (player_id, league_id) makes the assistant assignments a set, and the   *)
(* foreign keys keep every reference inside the table it points to.        *)
(***************************************************************************)
PlayerIds == {"p1", "p2"}

LeagueIds == {"l1", "l2"}

SeasonIds == {"s1"}

RoundIds == {"r1"}

\* player.roles: a list of role names.
RoleLists == {<<"Player">>, <<"Player", "TagMaster">>}

\* x in list
In(x, list) == \E k \in 1..Len(list) : list[k] = x

\* The tables with the ids S present, each row drawn from Rows.
Table(Ids, Rows) == UNION {[S -> Rows] : S \in SUBSET Ids}

NoRows == [i \in {} |-> <<>>]

EmptyDatabase ==
    [players |-> NoRows, leagues |-> NoRows, league_assistants |-> {},
     seasons |-> NoRows, rounds |-> NoRows]

\* What a call gives back to its caller.
Returns(value) == [kind |-> "return", value |-> value]

Raises(exc) == [kind |-> "raise", value |-> exc]

\* fastapi.HTTPException(status_code, detail)
HTTPException(status_code, detail) ==
    [type |-> "HTTPException", status_code |-> status_code, detail |-> detail]

None == <<>>

ServiceCall(op, player, target, outcome, before) ==
    [op |-> op, player |-> player, target |-> target, outcome |-> outcome,
     before |-> before]

NoCall == ServiceCall("init", <<>>, <<>>, Returns(None), EmptyDatabase)

(***************************************************************************)
(* app/services/permissions.py                                             *)
(***************************************************************************)
is_tag_master(player) == In("TagMaster", player.roles)

\* (variant) the organizer of a deleted league still manages it
can_manage_league_deleted_too(player, league_id, d) ==
    LET league == {l \in DOMAIN d.leagues :
                      /\ l = league_id
                      /\ d.leagues[l].organizer_id = player.id}
    IN  IF league # {}
        THEN TRUE
        ELSE LET assistant == {a \in d.league_assistants :
                                  /\ a.league_id = league_id
                                  /\ a.player_id = player.id}
             IN  assistant # {}

\* (variant) an assistant of a deleted league no longer manages it
can_manage_league_live_only(player, league_id, d) ==
    LET league == {l \in DOMAIN d.leagues :
                      /\ l = league_id
                      /\ d.leagues[l].organizer_id = player.id
                      /\ ~d.leagues[l].deleted}
    IN  IF league # {}
        THEN TRUE
        ELSE LET assistant == {a \in d.league_assistants :
                                  /\ a.league_id = league_id
                                  /\ a.player_id = player.id
                                  /\ ~d.leagues[a.league_id].deleted}
             IN  assistant # {}

can_manage_league(player, league_id, d) ==
    LET league == {l \in DOMAIN d.leagues :
                      /\ l = league_id
                      /\ d.leagues[l].organizer_id = player.id
                      /\ ~d.leagues[l].deleted}
    IN  IF league # {}
        THEN TRUE
        ELSE LET assistant == {a \in d.league_assistants :
                                  /\ a.league_id = league_id
                                  /\ a.player_id = player.id}
             IN  assistant # {}

\* (variant) a deleted round is still resolved
can_manage_round_deleted_too(player, round_id, d) ==
    IF round_id \notin DOMAIN d.rounds
    THEN FALSE
    ELSE LET round_obj == d.rounds[round_id]
         IN  IF round_obj.season_id \notin DOMAIN d.seasons
             THEN FALSE
             ELSE can_manage_league(player,
                                    d.seasons[round_obj.season_id].league_id, d)

can_manage_round(player, round_id, d) ==
    IF round_id \notin DOMAIN d.rounds \/ d.rounds[round_id].deleted
    THEN FALSE
    ELSE LET round_obj == d.rounds[round_id]
         IN  IF round_obj.season_id \notin DOMAIN d.seasons
             THEN FALSE
             ELSE can_manage_league(player,
                                    d.seasons[round_obj.season_id].league_id, d)

\* (variant) the role or the league, as the name says
is_tag_master_or_assistant_either(player, league_id, d) ==
    is_tag_master(player) \/ can_manage_league(player, league_id, d)

is_tag_master_or_assistant(player, league_id, d) ==
    IF is_tag_master(player)
    THEN can_manage_league(player, league_id, d)
    ELSE FALSE

\* (variant) the role decides
require_league_manager_by_role(player, league_id, d) ==
    IF ~is_tag_master(player)
    THEN Raises(HTTPException(403,
                    "You do not have permission to manage this league"))
    ELSE Returns(None)

require_league_manager(player, league_id, d) ==
    IF ~can_manage_league(player, league_id, d)
    THEN Raises(HTTPException(403,
                    "You do not have permission to manage this league"))
    ELSE Returns(None)

\* (variant) a missing round is reported as missing
require_round_manager_not_found(player, round_id, d) ==
    IF round_id \notin DOMAIN d.rounds \/ d.rounds[round_id].deleted
    THEN Raises(HTTPException(404, "Round not found"))
    ELSE IF ~can_manage_round(player, round_id, d)
         THEN Raises(HTTPException(403,
                         "You do not have permission to manage this round"))
         ELSE Returns(None)

require_round_manager(player, round_id, d) ==
    IF ~can_manage_round(player, round_id, d)
    THEN Raises(HTTPException(403,
                    "You do not have permission to manage this round"))
    ELSE Returns(None)

\* The Player instance the caller passes: a row of the players table.
PlayerOf(id) == [id |-> id, roles |-> db.players[id].roles]

Resolve(op, id, target, outcome) ==
    /\ id \in DOMAIN db.players
    /\ call' = ServiceCall(op, <<id>>, <<target>>, outcome, db)
    /\ UNCHANGED <<db, sessions>>
    /\ UNCHANGED <<vars_limiter, chain, threads>>

CanManageLeague(id, league_id) ==
    Resolve("can_manage_league", id, league_id,
            Returns(can_manage_league(PlayerOf(id), league_id, db)))

CanManageRound(id, round_id) ==
    Resolve("can_manage_round", id, round_id,
            Returns(can_manage_round(PlayerOf(id), round_id, db)))

IsTagMasterOrAssistant(id, league_id) ==
    Resolve("is_tag_master_or_assistant", id, league_id,
            Returns(is_tag_master_or_assistant(PlayerOf(id), league_id, db)))

RequireLeagueManager(id, league_id) ==
    Resolve("require_league_manager", id, league_id,
            require_league_manager(PlayerOf(id), league_id, db))

RequireRoundManager(id, round_id) ==
    Resolve("require_round_manager", id, round_id,
            require_round_manager(PlayerOf(id), round_id, db))

\* The databases the resolvers are asked about: two players, up to two
\* leagues, a season and a round.
PermissionDatabases ==
    {d \in [players : [PlayerIds -> [roles : RoleLists, deleted : {FALSE}]],
            leagues : Table(LeagueIds,
                            [organizer_id : PlayerIds, deleted : BOOLEAN]),
            league_assistants :
                SUBSET [league_id : LeagueIds, player_id : PlayerIds],
            seasons : Table(SeasonIds, [league_id : LeagueIds]),
            rounds : Table(RoundIds,
                           [season_id : SeasonIds, deleted : BOOLEAN])] :
        /\ \A a \in d.league_assistants : a.league_id \in DOMAIN d.leagues
        /\ \A s \in DOMAIN d.seasons :
              d.seasons[s].league_id \in DOMAIN d.leagues
        /\ \A r \in DOMAIN d.rounds :
              d.rounds[r].season_id \in DOMAIN d.seasons}

InitPermissions ==
    /\ rate_limit = 1
    /\ buckets = [i \in {} |-> Bucket(0, 0)]
    /\ clock = 0
    /\ burst = NoBurst
    /\ shown = [i \in Identifiers |-> NoShown]
    /\ inflight = EmptyBag
    /\ last = Call("init", <<>>, <<>>, 0, FALSE, FALSE, NoResponse, NoShown)
    /\ chain = NoChain
    /\ db \in PermissionDatabases
    /\ sessions = EmptyBag
    /\ call = NoCall
    /\ threads = NoThreads

NextPermissions ==
    \/ \E id \in PlayerIds, league_id \in LeagueIds :
          CanManageLeague(id, league_id)
    \/ \E id \in PlayerIds, round_id \in RoundIds :
          CanManageRound(id, round_id)
    \/ \E id \in PlayerIds, league_id \in LeagueIds :
          IsTagMasterOrAssistant(id, league_id)
    \/ \E id \in PlayerIds, league_id \in LeagueIds :
          RequireLeagueManager(id, league_id)
    \/ \E id \in PlayerIds, round_id \in RoundIds :
          RequireRoundManager(id, round_id)

SpecPermissions == InitPermissions /\ [][NextPermissions]_vars

(***************************************************************************)
(* app/services/player.py                                                  *)
(***************************************************************************)
Emails == {"ann@x.org", "bob@x.org"}

\* pwd_context.hash(password)
hash_password(password) == <<"$2b$", password>>

\* pwd_context.verify(plain_password, hashed_password)
verify_password(plain_password, hashed_password) ==
    hashed_password = <<"$2b$", plain_password>>

\* A row of the players table.
Player(email, password_hash, name, bio, roles, email_verified) ==
    [email |-> email, password_hash |-> password_hash, name |-> name,
     bio |-> bio, roles |-> roles, email_verified |-> email_verified,
     deleted |-> FALSE]

\* Registration data and profile updates as the schemas let them through.
PlayerRegister ==
    [email : Emails, password : {"Secret1"}, name : {"Ann"}, bio : {None}]

PlayerUpdate ==
    {[name |-> None, bio |-> None, password |-> None],
     [name |-> <<"Bea">>, bio |-> <<"bio">>, password |-> <<"Secret2">>]}

ValueError(message) == [type |-> "ValueError", message |-> message]

\* What the commit raises when the unique constraint on players.email
\* rejects the INSERT.
IntegrityError ==
    [type |-> "IntegrityError",
     message |-> "duplicate key value violates unique constraint"]

Insert(table, id, row) ==
    [i \in DOMAIN table \cup {id} |-> IF i = id THEN row ELSE table[i]]

\* (variant) the rows of deleted players found too
active_by_email_any(d, email) ==
    {id \in DOMAIN d.players : d.players[id].email = email}

\* select(Player).where(Player.email == email, Player.deleted_at.is_(None))
active_by_email(d, email) ==
    {id \in DOMAIN d.players :
        d.players[id].email = email /\ ~d.players[id].deleted}

\* A register_player call suspended at its commit.
Registering(player_data) ==
    [op |-> "register_player", player_data |-> player_data]

\* register_player up to the commit: the query for the email, the error
\* when an active player has it, the new Player added to the session.
RegisterBegin(player_data) ==
    /\ LET existing_player == active_by_email(db, player_data.email)
       IN  IF existing_player # {}
           THEN /\ call' = ServiceCall("register_player", <<>>, <<player_data>>,
                                       Raises(ValueError("Email already registered")),
                                       db)
                /\ UNCHANGED <<db, sessions>>
           ELSE /\ Cardinality(DOMAIN db.players) + BagCardinality(sessions)
                       < Cardinality(PlayerIds)
                /\ sessions' = sessions (+) SetToBag({Registering(player_data)})
                /\ UNCHANGED <<db, call>>
    /\ UNCHANGED <<vars_limiter, chain, threads>>

\* (variant) the unique constraint over the rows that are not deleted only
RegisterCommit_partial_index(session) ==
    /\ BagIn(session, sessions)
    /\ sessions' = sessions (-) SetToBag({session})
    /\ LET player_data == session.player_data
       IN  IF \E id \in DOMAIN db.players :
                    /\ db.players[id].email = player_data.email
                    /\ ~db.players[id].deleted
           THEN /\ call' = ServiceCall("register_player", <<>>, <<player_data>>,
                                       Raises(IntegrityError), db)
                /\ UNCHANGED db
           ELSE \E id \in PlayerIds \ DOMAIN db.players :
                   /\ db' = [db EXCEPT !.players =
                                Insert(@, id,
                                       Player(player_data.email,
                                              hash_password(player_data.password),
                                              player_data.name,
                                              player_data.bio,
                                              <<"Player">>, FALSE))]
                   /\ call' = ServiceCall("register_player", <<id>>,
                                          <<player_data>>, Returns(<<id>>), db)
    /\ UNCHANGED <<vars_limiter, chain, threads>>

\* (variant) no unique constraint on players.email
RegisterCommit_unconstrained(session) ==
    /\ BagIn(session, sessions)
    /\ sessions' = sessions (-) SetToBag({session})
    /\ LET player_data == session.player_data
       IN  \E id \in PlayerIds \ DOMAIN db.players :
               /\ db' = [db EXCEPT !.players =
                            Insert(@, id,
                                   Player(player_data.email,
                                          hash_password(player_data.password),
                                          player_data.name,
                                          player_data.bio,
                                          <<"Player">>, FALSE))]
               /\ call' = ServiceCall("register_player", <<id>>,
                                      <<player_data>>, Returns(<<id>>), db)
    /\ UNCHANGED <<vars_limiter, chain, threads>>

\* register_player from the commit on: the INSERT, which the unique
\* constraint on email rejects when any row has the email, and the return.
RegisterCommit(session) ==
    /\ BagIn(session, sessions)
    /\ sessions' = sessions (-) SetToBag({session})
    /\ LET player_data == session.player_data
       IN  IF \E id \in DOMAIN db.players :
                    db.players[id].email = player_data.email
           THEN /\ call' = ServiceCall("register_player", <<>>, <<player_data>>,
                                       Raises(IntegrityError), db)
                /\ UNCHANGED db
           ELSE \E id \in PlayerIds \ DOMAIN db.players :
                   /\ db' = [db EXCEPT !.players =
                                Insert(@, id,
                                       Player(player_data.email,
                                              hash_password(player_data.password),
                                              player_data.name,
                                              player_data.bio,
                                              <<"Player">>, FALSE))]
                   /\ call' = ServiceCall("register_player", <<id>>,
                                          <<player_data>>, Returns(<<id>>), db)
    /\ UNCHANGED <<vars_limiter, chain, threads>>

Read(op, player, target, outcome) ==
    /\ call' = ServiceCall(op, player, target, outcome, db)
    /\ UNCHANGED <<db, sessions>>
    /\ UNCHANGED <<vars_limiter, chain, threads>>

AuthenticatePlayer(email, password) ==
    LET player == active_by_email(db, email)
    IN  Read("authenticate_player", <<>>, <<email, password>>,
             IF \/ player = {}
                \/ \A id \in player :
                      ~verify_password(password, db.players[id].password_hash)
             THEN Returns(None)
             ELSE Returns(<<CHOOSE id \in player : TRUE>>))

GetPlayerById(player_id) ==
    Read("get_player_by_id", <<>>, <<player_id>>,
         IF player_id \in DOMAIN db.players /\ ~db.players[player_id].deleted
         THEN Returns(<<player_id>>)
         ELSE Returns(None))

(***************************************************************************)
(* app/dependencies.py                                                     *)
(***************************************************************************)
\* Bearer tokens: whether jwt.decode accepts the signature and the expiry,
\* and the "sub" claim (absent, the id of a player, or not a UUID).
Tokens == [valid : BOOLEAN, sub : Option(PlayerIds \cup {"not-a-uuid"})]

\* decode_access_token(token): the payload, or None if invalid or expired.
decode_access_token(token) ==
    IF token.valid THEN <<[sub |-> token.sub]>> ELSE None

credentials_exception ==
    [type |-> "HTTPException", status_code |-> 401,
     detail |-> "Could not validate credentials",
     headers |-> {<<"WWW-Authenticate", "Bearer">>}]

\* (variant) the row of a deleted player accepted too
get_current_user_deleted_too(d, token) ==
    LET payload == decode_access_token(token)
    IN  IF payload = None
        THEN Raises(credentials_exception)
        ELSE IF payload[1].sub = None
        THEN Raises(credentials_exception)
        ELSE IF payload[1].sub[1] \notin PlayerIds
        THEN Raises(credentials_exception)
        ELSE LET user_id == payload[1].sub[1]
                 user == {id \in DOMAIN d.players : id = user_id}
             IN  IF user = {}
                 THEN Raises(credentials_exception)
                 ELSE Returns(<<user_id>>)

get_current_user(d, token) ==
    LET payload == decode_access_token(token)
    IN  IF payload = None
        THEN Raises(credentials_exception)
        ELSE IF payload[1].sub = None
        THEN Raises(credentials_exception)
        ELSE IF payload[1].sub[1] \notin PlayerIds
        THEN Raises(credentials_exception)
        ELSE LET user_id == payload[1].sub[1]
                 user == {id \in DOMAIN d.players :
                             id = user_id /\ ~d.players[id].deleted}
             IN  IF user = {}
                 THEN Raises(credentials_exception)
                 ELSE Returns(<<user_id>>)

GetCurrentUser(token) ==
    Read("get_current_user", <<>>, <<token>>, get_current_user(db, token))

\* (variant) an update that also restores the account
update_player_restoring(player, update_data) ==
    [player EXCEPT
        !.name = IF update_data.name # None THEN update_data.name[1] ELSE @,
        !.bio = IF update_data.bio # None THEN update_data.bio ELSE @,
        !.password_hash = IF update_data.password # None
                          THEN hash_password(update_data.password[1]) ELSE @,
        !.deleted = FALSE]

\* The columns update_player sets on the player.
update_player(player, update_data) ==
    [player EXCEPT
        !.name = IF update_data.name # None THEN update_data.name[1] ELSE @,
        !.bio = IF update_data.bio # None THEN update_data.bio ELSE @,
        !.password_hash = IF update_data.password # None
                          THEN hash_password(update_data.password[1]) ELSE @]

UpdatePlayer(id, update_data) ==
    /\ id \in DOMAIN db.players
    /\ db' = [db EXCEPT !.players[id] = update_player(@, update_data)]
    /\ call' = ServiceCall("update_player", <<id>>, <<update_data>>,
                           Returns(<<id>>), db)
    /\ UNCHANGED sessions
    /\ UNCHANGED <<vars_limiter, chain, threads>>

\* (variant) deleted leagues counted too
active_leagues_count_all(d, id) ==
    Cardinality({l \in DOMAIN d.leagues : d.leagues[l].organizer_id = id})

\* select(func.count()).select_from(League).where(
\*     League.organizer_id == player.id, League.deleted_at.is_(None))
active_leagues_count(d, id) ==
    Cardinality({l \in DOMAIN d.leagues :
                    d.leagues[l].organizer_id = id /\ ~d.leagues[l].deleted})

SoftDeletePlayer(id) ==
    /\ id \in DOMAIN db.players
    /\ LET count == active_leagues_count(db, id)
       IN  IF count > 0
           THEN /\ call' = ServiceCall("soft_delete_player", <<id>>, <<>>,
                               Raises(ValueError(
                                   "Cannot delete account: organizer of "
                                   \o ToString(count) \o " active league(s). "
                                   \o "Please delete or transfer leagues first.")),
                               db)
                /\ UNCHANGED db
           ELSE /\ db' = [db EXCEPT !.players[id].deleted = TRUE]
                /\ call' = ServiceCall("soft_delete_player", <<id>>, <<>>,
                                       Returns(None), db)
    /\ UNCHANGED sessions
    /\ UNCHANGED <<vars_limiter, chain, threads>>

\* The names of the model in the order the database sorts them.
Names == <<"Ann", "Bea">>

Rank(name) == CHOOSE k \in 1..Len(Names) : Names[k] = name

\* The active players in an order by name.
ByName(d) ==
    LET active == {id \in DOMAIN d.players : ~d.players[id].deleted}
        n == Cardinality(active)
    IN  {order \in [1..n -> active] :
            /\ \A i, j \in 1..n : i # j => order[i] # order[j]
            /\ \A i \in 1..(n - 1) :
                  Rank(d.players[order[i]].name)
                      <= Rank(d.players[order[i + 1]].name)}

\* .offset(offset).limit(size)
Slice(order, offset, size) ==
    [k \in 1..max(0, min(size, Len(order) - offset)) |-> order[offset + k]]

ListPlayers(page, size) ==
    \E order \in ByName(db) :
        Read("list_players", <<>>, <<page, size>>,
             Returns(<<Slice(order, (page - 1) * size, size), Len(order)>>))

\* assign_tagmaster_role: the role is appended to the list in place; the
\* column is a plain ARRAY, so it depends on the change tracking of the
\* ORM whether the commit writes the list.
AssignTagmasterRole(id) ==
    /\ id \in DOMAIN db.players
    /\ IF ~In("TagMaster", db.players[id].roles)
       THEN \E tracked \in BOOLEAN :
               db' = IF tracked
                     THEN [db EXCEPT !.players[id].roles = Append(@, "TagMaster")]
                     ELSE db
       ELSE UNCHANGED db
    /\ call' = ServiceCall("assign_tagmaster_role", <<id>>, <<>>,
                           Returns(<<id>>), db)
    /\ UNCHANGED sessions
    /\ UNCHANGED <<vars_limiter, chain, threads>>

\* The databases the player service starts on: no player or one, who may
\* organize a league.
PlayerDatabases ==
    {d \in [players : Table({"p1"},
                            {Player("ann@x.org", hash_password("Secret1"),
                                    "Ann", None, <<"Player">>, FALSE)}),
            leagues : Table({"l1"},
                            [organizer_id : {"p1"}, deleted : BOOLEAN]),
            league_assistants : {{}},
            seasons : {NoRows},
            rounds : {NoRows}] :
        \A l \in DOMAIN d.leagues :
            d.leagues[l].organizer_id \in DOMAIN d.players}

InitPlayers ==
    /\ rate_limit = 1
    /\ buckets = [i \in {} |-> Bucket(0, 0)]
    /\ clock = 0
    /\ burst = NoBurst
    /\ shown = [i \in Identifiers |-> NoShown]
    /\ inflight = EmptyBag
    /\ last = Call("init", <<>>, <<>>, 0, FALSE, FALSE, NoResponse, NoShown)
    /\ chain = NoChain
    /\ db \in PlayerDatabases
    /\ sessions = EmptyBag
    /\ call = NoCall
    /\ threads = NoThreads

Sessions == {Registering(player_data) : player_data \in PlayerRegister}

Pages == {1, 2}

Sizes == {1, 2}

NextPlayers ==
    \/ \E player_data \in PlayerRegister : RegisterBegin(player_data)
    \/ \E session \in Sessions : RegisterCommit(session)
    \/ \E email \in Emails, password \in {"Secret1", "Secret2"} :
          AuthenticatePlayer(email, password)
    \/ \E player_id \in PlayerIds : GetPlayerById(player_id)
    \/ \E token \in Tokens : GetCurrentUser(token)
    \/ \E id \in PlayerIds, update_data \in PlayerUpdate :
          UpdatePlayer(id, update_data)
    \/ \E id \in PlayerIds : SoftDeletePlayer(id)
    \/ \E page \in Pages, size \in Sizes : ListPlayers(page, size)
    \/ \E id \in PlayerIds : AssignTagmasterRole(id)

SpecPlayers == InitPlayers /\ [][NextPlayers]_vars

Init ==
    /\ rate_limit \in 1..MaxRateLimit
    /\ buckets = [i \in {} |-> Bucket(0, 0)]
    /\ clock = 0
    /\ burst = NoBurst
    /\ shown = [i \in Identifiers |-> NoShown]
    /\ inflight = EmptyBag
    /\ last = Call("init", <<>>, <<>>, 0, FALSE, FALSE, NoResponse, NoShown)
    /\ chain = NoChain
    /\ db = EmptyDatabase
    /\ sessions = EmptyBag
    /\ call = NoCall
    /\ threads = NoThreads

Next ==
    \/ (\E identifier \in TestIdentifiers : CheckRateLimit(identifier))
          /\ UNCHANGED vars_other
    \/ (\E identifier \in TestIdentifiers : ResetBucket(identifier))
          /\ UNCHANGED vars_other
    \/ Tick /\ UNCHANGED vars_other
    \/ SetBack /\ UNCHANGED vars_other

\* The limiter driven as middleware: requests dispatched, inner handler
\* returning, and the administrative reset.
NextDispatch ==
    \/ (\E request \in Requests : DispatchBegin(request))
          /\ UNCHANGED vars_other
    \/ (\E frame \in Frames : DispatchEnd(frame))
          /\ UNCHANGED vars_other
    \/ (\E identifier \in Identifiers : ResetBucket(identifier))
          /\ UNCHANGED vars_other
    \/ Tick /\ UNCHANGED vars_other

\* A request at a time travelling through the middleware chain.
NextChain ==
    \/ (\E request \in Arriving : Receive(request)) /\ UNCHANGED vars_storage
    \/ EnterRateLimit /\ UNCHANGED vars_storage
    \/ LeaveRateLimit /\ UNCHANGED vars_storage
    \/ EnterLogging /\ UNCHANGED vars_storage
    \/ LeaveLogging /\ UNCHANGED vars_storage
    \/ EnterErrorHandler /\ UNCHANGED vars_storage
    \/ LeaveErrorHandler /\ UNCHANGED vars_storage
    \/ EnterCORS /\ UNCHANGED vars_storage
    \/ LeaveCORS /\ UNCHANGED vars_storage
    \/ Route /\ UNCHANGED vars_storage

\* Requests that are not bypassed.
Limited == {request \in Requests : request.path \notin BypassPaths}

\* The limiter as middleware on one event loop, nobody resetting a bucket:
\* dispatch calls run one at a time and give way only at their await.
NextLoop ==
    \/ (\E request \in Limited : DispatchBegin(request))
          /\ Counting /\ UNCHANGED <<chain, db, sessions, call>>
    \/ (\E frame \in Frames : DispatchEnd(frame)) /\ UNCHANGED vars_other
    \/ Tick /\ UNCHANGED vars_other

\* _check_rate_limit called serially while time passes, the clock never set
\* back and no bucket reset.
NextSteady ==
    \/ (\E identifier \in TestIdentifiers : CheckRateLimit(identifier))
          /\ Counting /\ UNCHANGED <<chain, db, sessions, call>>
    \/ Tick /\ UNCHANGED vars_other

\* The limiter called from two threads at once.
NextThreads ==
    \/ \E t \in Threads, identifier \in TestIdentifiers :
          ThreadBegin(t, identifier) /\ UNCHANGED <<chain, db, sessions, call>>
    \/ \E t \in Threads : ThreadRead(t) /\ UNCHANGED <<chain, db, sessions, call>>
    \/ \E t \in Threads : ThreadWrite(t) /\ UNCHANGED <<chain, db, sessions, call>>
    \/ Tick /\ UNCHANGED vars_other

Spec == Init /\ [][Next]_vars

SpecThreads == Init /\ [][NextThreads]_vars

SpecLoop == Init /\ [][NextLoop]_vars

SpecSteady == Init /\ [][NextSteady]_vars

SpecDispatch == Init /\ [][NextDispatch]_vars

SpecChain == Init /\ [][NextChain]_vars

(***************************************************************************)
(* Properties of the bucket operations (specification Spec).               *)
(***************************************************************************)
\* The latest call was _check_rate_limit(i).
Checked(i) == last.op = "check" /\ last.identifier = <<i>>

\* C1: after any sequence of _check_rate_limit and reset_bucket calls,
\* whatever values the clock returned to them, every stored bucket has
\* 0 <= tokens <= capacity.
TokensWithinCapacity ==
    \A i \in DOMAIN buckets :
        buckets[i].tokens >= 0 /\ buckets[i].tokens <= Tok(rate_limit)

\* C2: for an identifier without a bucket, of the _check_rate_limit calls
\* that all read one and the same clock value the first `capacity` return
\* True and the (capacity+1)-th returns False.
InBurst(i) == Checked(i) /\ burst.identifier = <<i>>

BurstAdmitsCapacity ==
    \A i \in Identifiers :
        InBurst(i) =>
            /\ burst.calls \in 1..rate_limit => last.ret
            /\ burst.calls = rate_limit + 1 => ~last.ret

BurstRejected ==
    \E i \in Identifiers :
        InBurst(i) /\ rate_limit > 1 /\ burst.calls = rate_limit + 1 /\ ~last.ret

BucketsIndependent ==
    [][ \A i \in Identifiers :
            (last'.op \in {"check", "reset"} /\ last'.identifier = <<i>>) =>
                \A j \in Identifiers \ {i} : Stored(j)' = Stored(j) ]_vars

OtherAdmittedBesideExhausted ==
    \E a \in DOMAIN buckets, b \in DOMAIN buckets :
        /\ a # b
        /\ buckets[a].tokens = 0 /\ burst = Burst(<<a>>, rate_limit + 1, 0)
        /\ Checked(b) /\ last.ret /\ buckets[b].last_refill = buckets[a].last_refill

\* C7: reset_bucket(identifier) stores exactly (capacity, now), whatever
\* was stored before, and the next _check_rate_limit call of the identifier
\* returns True.
WasReset(i) == last.op = "reset" /\ last.identifier = <<i>>

ResetRestoresAdmission ==
    [][ \A i \in Identifiers :
           /\ WasReset(i)' => buckets'[i].tokens = Tok(rate_limit)
           /\ (WasReset(i) /\ Checked(i)') => last'.ret ]_vars

\* C22: a rejected _check_rate_limit call consumes no token: it stores
\* exactly the refilled count and the time it read, so the stored count is
\* not lower after the rejection than before it.
RejectionKeepsTokens ==
    [][ \A i \in Identifiers :
           (Checked(i)' /\ ~last'.ret /\ i \in DOMAIN buckets) =>
               /\ buckets'[i].last_refill = last'.now
               /\ buckets'[i].tokens
                     = min(Tok(rate_limit),
                           buckets[i].tokens
                               + (last'.now - buckets[i].last_refill) * refill_rate)
               /\ buckets'[i].tokens >= buckets[i].tokens ]_vars

(***************************************************************************)
(* Properties of dispatch (specification SpecDispatch).                    *)
(***************************************************************************)
\* The latest call was dispatch(request), up to its await or return.
Dispatched == last.op = "dispatch"

Bypassed(request) == request.path = "/health" \/ request.path = "/metrics"

\* dispatch invoked the inner handler in this step.
InnerInvoked == BagCardinality(inflight') > BagCardinality(inflight)

\* C6: a request to /health or /metrics is always forwarded to the inner
\* handler, is answered with the inner handler's response as it is (never
\* the limiter's 429), and no bucket is created or modified for it.
BypassForwarded ==
    (Dispatched /\ Bypassed(last.request[1])) =>
        last.forwarded /\ last.response = NoResponse /\ last.identifier = <<>>

BypassAnswered ==
    (last.op = "respond" /\ last.identifier = <<>>) =>
        /\ last.response[1].status_code # 429
        /\ last.response[1].headers = {}

BypassNeverLimited ==
    /\ [](BypassForwarded /\ BypassAnswered)
    /\ [][ /\ (Dispatched' /\ Bypassed(last'.request[1]) /\ last' # last) =>
                  InnerInvoked /\ buckets' = buckets
           /\ (last'.op = "respond" /\ last'.identifier = <<>>) =>
                  buckets' = buckets ]_vars

BypassedWhileExhausted ==
    /\ Dispatched /\ Bypassed(last.request[1]) /\ last.forwarded
    /\ get_identifier(last.request[1]) \in DOMAIN buckets
    /\ buckets[get_identifier(last.request[1])].tokens < Tok(1)

\* C8: a request that _check_rate_limit rejects is not forwarded and is
\* answered with 429, retry_after = 60 in the body and Retry-After: 60 in
\* the headers; the inner handler is invoked for admitted and bypassed
\* requests only.
Rejected ==
    Dispatched /\ ~Bypassed(last.request[1]) /\ ~last.ret

RejectedAnswer ==
    Rejected =>
        /\ ~last.forwarded
        /\ last.response # NoResponse
        /\ last.response[1].status_code = 429
        /\ last.response[1].content.retry_after = 60
        /\ <<"Retry-After", "60">> \in last.response[1].headers

RejectedNotForwarded ==
    /\ []RejectedAnswer
    /\ [][ /\ Rejected' => ~InnerInvoked
           /\ InnerInvoked =>
                  Dispatched' /\ (Bypassed(last'.request[1]) \/ last'.ret) ]_vars

RejectedSeen ==
    Rejected /\ last.response = <<too_many_requests>> /\ inflight = EmptyBag

\* C9: the response of an admitted request carries X-RateLimit-Limit =
\* capacity and X-RateLimit-Remaining = the floor of the identifier's tokens,
\* at least 0; with no refill and no reset in between, a response never
\* shows a higher Remaining than the response of the identifier before it,
\* and shows a lower one when its request was dispatched after that
\* response.
Floor(tokens) == tokens \div Tok(1)

RemainingShown(i) == IF Floor(buckets[i].tokens) < 0 THEN 0 ELSE Floor(buckets[i].tokens)

RateLimitHeaders ==
    \A i \in Identifiers :
        (last.op = "respond" /\ last.identifier = <<i>>) =>
            /\ <<"X-RateLimit-Limit", ToString(rate_limit)>> \in last.response[1].headers
            /\ <<"X-RateLimit-Remaining", ToString(RemainingShown(i))>>
                   \in last.response[1].headers
            /\ last.shown_before.remaining >= 0 =>
                   /\ RemainingShown(i) <= last.shown_before.remaining
                   /\ ~last.shown_before.overlapped =>
                          RemainingShown(i) < last.shown_before.remaining

RemainingDecreased ==
    \E i \in Identifiers :
        /\ last.op = "respond" /\ last.identifier = <<i>>
        /\ last.shown_before = Shown(1, FALSE)
        /\ <<"X-RateLimit-Remaining", "0">> \in last.response[1].headers

\* C10: the bucket a request is charged to is "user:" + user_id when the
\* request state has a user id, else "ip:" + client host when there is a
\* client, else "ip:unknown"; a request with a user id leaves the bucket of
\* its client address alone.
KeyOf(request) ==
    IF request.user_id # <<>> THEN "user:" \o request.user_id[1]
    ELSE IF request.client # <<>> THEN "ip:" \o request.client[1]
    ELSE "ip:unknown"

ChargedToKey ==
    (Dispatched /\ ~Bypassed(last.request[1])) =>
        /\ last.identifier = <<KeyOf(last.request[1])>>
        /\ KeyOf(last.request[1]) \in DOMAIN buckets
        /\ buckets[KeyOf(last.request[1])].last_refill = last.now

IdentifierChoice ==
    /\ []ChargedToKey
    /\ [][ \A host \in Hosts :
               ( /\ Dispatched'
                 /\ last'.request[1].user_id # <<>>
                 /\ last'.request[1].client = <<host>> ) =>
                    Stored("ip:" \o host)' = Stored("ip:" \o host) ]_vars

UserBesideAddress ==
    /\ Dispatched /\ ~Bypassed(last.request[1]) /\ last.ret
    /\ last.request[1].user_id = <<"abc">>
    /\ last.request[1].client = <<"10.0.0.5">>
    /\ "ip:10.0.0.5" \in DOMAIN buckets
    /\ buckets["ip:10.0.0.5"].tokens < Tok(1)

(***************************************************************************)
(* Properties of the middleware chain (specification SpecChain).           *)
(***************************************************************************)
\* The request has entered layer `a` before it entered layer `b`.
EnteredBefore(a, b) ==
    \A k \in 1..Len(chain.trail) :
        chain.trail[k] = b => \E j \in 1..(k - 1) : chain.trail[j] = a

\* The rate limiter has just answered the request itself.
LimiterRejected ==
    /\ chain.request # <<>>
    /\ chain.result # <<>>
    /\ chain.trail # <<>>
    /\ chain.trail[Len(chain.trail)] = "RateLimitMiddleware"
    /\ chain.result[1].kind = "response"
    /\ chain.result[1].value.status_code = 429

Logged(event) ==
    \E k \in 1..Len(chain.log) :
        /\ chain.log[k].event = event
        /\ <<chain.log[k].request_id>> = chain.request_id

\* C11: a request passes Logging, then the Rate Limiter, then the Error
\* Handler, then the route handler; the correlation id is assigned before
\* the admission decision, so a request the limiter rejects has a
\* correlation id and its arrival was logged.
CorrelatedBeforeAdmission ==
    /\ EnteredBefore("LoggingMiddleware", "RateLimitMiddleware")
    /\ EnteredBefore("RateLimitMiddleware", "ErrorHandlerMiddleware")
    /\ EnteredBefore("ErrorHandlerMiddleware", "router")
    /\ LimiterRejected => chain.request_id # <<>> /\ Logged("http_request")

LayerIndex(layer) == CHOOSE k \in 1..Len(Layers) : Layers[k] = layer

\* An answer or an exception is travelling up above the Error Handler.
AboveErrorHandler ==
    /\ chain.request # <<>>
    /\ chain.result # <<>>
    /\ chain.going = "up"
    /\ chain.at < LayerIndex("ErrorHandlerMiddleware")
    /\ \E k \in 1..Len(chain.trail) : chain.trail[k] = "ErrorHandlerMiddleware"

\* The Error Handler has just answered an exception of the layers below.
Converted ==
    /\ AboveErrorHandler
    /\ chain.log # <<>>
    /\ chain.log[Len(chain.log)].event = "unhandled_exception"

\* C12 as stated: every exception of the layers below the Error Handler is
\* answered there with a 500 whose body, for the correlation id of the
\* request, is the one any other exception would have got.
ErrorBodyIndependent ==
    /\ AboveErrorHandler => chain.result[1].kind = "response"
    /\ Converted =>
          /\ chain.result[1].value.status_code = 500
          /\ \A e \in Exceptions :
                error_response(chain.request_id, e).content
                    = chain.result[1].value.content

\* C12 (amended): every exception of the layers below the Error Handler is
\* answered there with a 500 whose body holds the fixed detail text, the
\* correlation id of the request and the class name of the exception, and
\* is the one any other exception of that class would have got, whatever
\* its message.
ErrorBodyByType ==
    /\ AboveErrorHandler => chain.result[1].kind = "response"
    /\ Converted =>
          LET exc == chain.log[Len(chain.log)].about
              response == chain.result[1].value
          IN  /\ response.status_code = 500
              /\ response.content.request_id = chain.request_id[1]
              /\ response.content.error_type = exc.type
              /\ response.content.detail # exc.message
              /\ \A e \in Exceptions :
                    e.type = exc.type =>
                        error_response(chain.request_id, e).content
                            = response.content

\* A ZeroDivisionError("bang") of a route handler has been answered.
ErrorAnswered ==
    /\ Converted
    /\ chain.log[Len(chain.log)].about
           = [type |-> "ZeroDivisionError", message |-> "bang"]
    /\ chain.result[1].value.content.error_type = "ZeroDivisionError"

(***************************************************************************)
(* Properties of the permission resolvers (specification SpecPermissions). *)
(***************************************************************************)
Asked(op) == call.op = op

Asker == call.player[1]

Target == call.target[1]

IsOrganizer(id, league_id) ==
    /\ league_id \in DOMAIN db.leagues
    /\ db.leagues[league_id].organizer_id = id
    /\ ~db.leagues[league_id].deleted

IsAssistant(id, league_id) ==
    [league_id |-> league_id, player_id |-> id] \in db.league_assistants

\* C13: can_manage_league returns true exactly when the player is the
\* organizer of a non-deleted league with that id or is assigned as an
\* assistant of it; it returns false, and does not raise, otherwise and
\* when there is no league with that id.
ManageLeagueIff ==
    Asked("can_manage_league") =>
        /\ call.outcome.kind = "return"
        /\ call.outcome.value
              = (IsOrganizer(Asker, Target) \/ IsAssistant(Asker, Target))
        /\ Target \notin DOMAIN db.leagues => call.outcome.value = FALSE

\* The organizer of a deleted league, not an assistant of it, is refused.
DeletedLeagueNotManaged ==
    /\ Asked("can_manage_league")
    /\ Target \in DOMAIN db.leagues
    /\ db.leagues[Target].organizer_id = Asker
    /\ db.leagues[Target].deleted
    /\ call.outcome = Returns(FALSE)

\* The round, its season and the league of the season are all there.
RoundResolved(round_id) ==
    /\ round_id \in DOMAIN db.rounds
    /\ ~db.rounds[round_id].deleted
    /\ db.rounds[round_id].season_id \in DOMAIN db.seasons
    /\ db.seasons[db.rounds[round_id].season_id].league_id
           \in DOMAIN db.leagues

LeagueOfRound(round_id) ==
    db.seasons[db.rounds[round_id].season_id].league_id

\* C14: can_manage_round returns false, and does not raise, when the
\* non-deleted round, its season or the league of the season is not there,
\* and otherwise what can_manage_league returns for the league of the
\* round's season.
ManageRoundResolves ==
    Asked("can_manage_round") =>
        /\ call.outcome.kind = "return"
        /\ call.outcome.value
              = IF RoundResolved(Target)
                THEN can_manage_league(PlayerOf(Asker), LeagueOfRound(Target), db)
                ELSE FALSE

\* The organizer of the league of a deleted round is refused.
DeletedRoundNotManaged ==
    /\ Asked("can_manage_round")
    /\ Target \in DOMAIN db.rounds
    /\ db.rounds[Target].deleted
    /\ IsOrganizer(Asker, LeagueOfRound(Target))
    /\ call.outcome = Returns(FALSE)

RequireMatchesResolver ==
    /\ Asked("require_league_manager") =>
          /\ (call.outcome.kind = "raise")
                = ~can_manage_league(PlayerOf(Asker), Target, db)
          /\ call.outcome.kind = "raise" => call.outcome.value.status_code = 403
          /\ call.outcome.kind = "return" => call.outcome = Returns(None)
    /\ Asked("require_round_manager") =>
          /\ (call.outcome.kind = "raise")
                = ~can_manage_round(PlayerOf(Asker), Target, db)
          /\ call.outcome.kind = "raise" => call.outcome.value.status_code = 403
          /\ call.outcome.kind = "return" => call.outcome = Returns(None)
    /\ call.op \in {"can_manage_league", "can_manage_round",
                    "is_tag_master_or_assistant"}
          => call.outcome.kind = "return"

\* An assistant without the TagMaster role passes require_league_manager.
LeagueManagerAdmitted ==
    /\ Asked("require_league_manager")
    /\ IsAssistant(Asker, Target)
    /\ db.players[Asker].roles = <<"Player">>
    /\ call.outcome = Returns(None)

\* C17: for a player, require_round_manager answers a round that is not
\* there (or whose season or league is not there) as it answers a round of
\* a league the player neither organizes nor assists, with the same 403
\* and the same detail; and so does require_league_manager for a league.
MissingLooksForbidden ==
    /\ (/\ Asked("require_round_manager")
        /\ \/ ~RoundResolved(Target)
           \/ ~(\/ IsOrganizer(Asker, LeagueOfRound(Target))
                \/ IsAssistant(Asker, LeagueOfRound(Target))))
          => call.outcome
                = Raises(HTTPException(403,
                      "You do not have permission to manage this round"))
    /\ (/\ Asked("require_league_manager")
        /\ \/ Target \notin DOMAIN db.leagues
           \/ ~(IsOrganizer(Asker, Target) \/ IsAssistant(Asker, Target)))
          => call.outcome
                = Raises(HTTPException(403,
                      "You do not have permission to manage this league"))

\* A round that is not there has been refused.
MissingRoundRefused ==
    /\ Asked("require_round_manager")
    /\ Target \notin DOMAIN db.rounds
    /\ call.outcome.kind = "raise"

(***************************************************************************)
(* Properties of the player service (specification SpecPlayers).           *)
(***************************************************************************)
\* C18: an account that soft_delete_player has deleted stays deleted
\* whatever operation of the player service runs next.
DeletionIsFinal ==
    [][\A id \in DOMAIN db.players :
          db.players[id].deleted =>
              id \in DOMAIN db'.players /\ db'.players[id].deleted]_vars

\* A deleted account has been updated since, and is still deleted.
DeletedThenUpdated ==
    /\ call.op = "update_player"
    /\ call.before.players[call.player[1]].deleted
    /\ db.players[call.player[1]].name = "Bea"
    /\ db.players[call.player[1]].deleted

\* Players of the database d that have the email, deleted or not.
BoundTo(d, email) == {id \in DOMAIN d.players : d.players[id].email = email}

ActiveBoundTo(d, email) == {id \in BoundTo(d, email) : ~d.players[id].deleted}

\* C19: register_player with an email an active player has is answered
\* with "Email already registered" and gets no further (no player added,
\* nothing committed); with an email no player has it adds exactly one
\* player, active and with the roles ["Player"].
RegistrationContract ==
    [][/\ \A player_data \in PlayerRegister :
             ActiveBoundTo(db, player_data.email) # {} =>
                 CopiesIn(Registering(player_data), sessions')
                     <= CopiesIn(Registering(player_data), sessions)
       /\ call'.op = "register_player" =>
             LET player_data == call'.target[1]
                 before == call'.before
             IN  /\ call'.outcome = Raises(ValueError("Email already registered"))
                       => ActiveBoundTo(before, player_data.email) # {}
                 /\ call'.outcome.kind = "raise" => db' = before
                 /\ BoundTo(before, player_data.email) = {} =>
                       \E id \in PlayerIds \ DOMAIN before.players :
                           /\ call'.outcome = Returns(<<id>>)
                           /\ DOMAIN db'.players = DOMAIN before.players \cup {id}
                           /\ \A other \in DOMAIN before.players :
                                 db'.players[other] = before.players[other]
                           /\ db'.players[id].email = player_data.email
                           /\ db'.players[id].roles = <<"Player">>
                           /\ ~db'.players[id].deleted
                           /\ db'.leagues = before.leagues]_vars

\* A second registration with the email of a registered player has been
\* refused.
DuplicateEmailRefused ==
    /\ call.op = "register_player"
    /\ call.outcome = Raises(ValueError("Email already registered"))
    /\ call.target[1].email = "bob@x.org"
    /\ \E id \in DOMAIN db.players :
          /\ db.players[id].email = "bob@x.org"
          /\ db.players[id].roles = <<"Player">>
          /\ ~db.players[id].deleted
    /\ db = call.before

\* The player organizes a league that is not deleted.
Organizes(d, id) ==
    \E l \in DOMAIN d.leagues :
        d.leagues[l].organizer_id = id /\ ~d.leagues[l].deleted

\* C20: soft_delete_player is refused with a ValueError when the player
\* organizes a league that is not deleted, and then the player stays as it
\* was and nothing is committed; otherwise the player becomes deleted.
DeletionContract ==
    call.op = "soft_delete_player" =>
        LET id == call.player[1]
        IN  IF Organizes(call.before, id)
            THEN /\ call.outcome.kind = "raise"
                 /\ call.outcome.value.type = "ValueError"
                 /\ db = call.before
                 /\ ~call.before.players[id].deleted => ~db.players[id].deleted
            ELSE /\ call.outcome = Returns(None)
                 /\ db.players[id].deleted
                 /\ db = [call.before EXCEPT !.players[id].deleted = TRUE]

\* The organizer of a league has been refused and is still active.
DeletionRefused ==
    /\ call.op = "soft_delete_player"
    /\ call.outcome.kind = "raise"
    /\ Organizes(db, call.player[1])
    /\ ~db.players[call.player[1]].deleted

\* The ids in a list.
Range(list) == {list[k] : k \in 1..Len(list)}

\* C21: a player that soft_delete_player has deleted is excluded from every
\* lookup: authenticate_player with the email of the player returns None
\* whatever the password, get_current_user answers a valid token of the
\* player with 401, and get_player_by_id and list_players (items and
\* total) leave the player out.
ExcludedOnceDeleted ==
    /\ call.op = "authenticate_player" =>
          /\ IF \A id \in BoundTo(db, call.target[1]) : db.players[id].deleted
             THEN call.outcome = Returns(None)
             ELSE TRUE
          /\ IF call.outcome.value # None
             THEN ~db.players[call.outcome.value[1]].deleted
             ELSE TRUE
    /\ call.op = "get_current_user" =>
          LET token == call.target[1]
          IN  IF /\ token.sub # None
                 /\ token.sub[1] \in DOMAIN db.players
                 /\ db.players[token.sub[1]].deleted
              THEN /\ call.outcome.kind = "raise"
                   /\ call.outcome.value.status_code = 401
              ELSE TRUE
    /\ call.op = "get_player_by_id" =>
          IF /\ call.target[1] \in DOMAIN db.players
             /\ db.players[call.target[1]].deleted
          THEN call.outcome = Returns(None)
          ELSE TRUE
    /\ call.op = "list_players" =>
          /\ \A id \in Range(call.outcome.value[1]) : ~db.players[id].deleted
          /\ call.outcome.value[2]
                = Cardinality({id \in DOMAIN db.players : ~db.players[id].deleted})

\* A valid token of a deleted player has been answered with 401.
DeletedTokenRejected ==
    /\ call.op = "get_current_user"
    /\ call.target[1].valid
    /\ call.target[1].sub # None
    /\ call.target[1].sub[1] \in DOMAIN db.players
    /\ db.players[call.target[1].sub[1]].deleted
    /\ call.outcome = Raises(credentials_exception)

(***************************************************************************)
(* Properties of parallel calls (specification SpecThreads).               *)
(***************************************************************************)
\* The call of thread t returns in this step.
Returning(t) == threads.at[t].pc = "read" /\ threads'.at[t].pc = "idle"

\* C23: take a call that returns True with no time elapsed since the stored
\* bucket's last refill.  If the entry it read is still the stored one, its
\* write takes one token off the stored count.  If another call with the
\* same current_time read the same entry and wrote first (both had read
\* before either wrote), its write takes nothing off the stored count: a
\* consumption is lost.
RacedWriteLosesConsumption ==
    [][ \A t \in Threads :
           LET i == threads.at[t].identifier[1] IN
           (/\ Returning(t)
            /\ last'.ret
            /\ buckets[i].last_refill = threads.at[t].current_time) =>
               /\ threads.at[t].raced => buckets'[i].tokens >= buckets[i].tokens
               /\ threads.at[t].seen = <<buckets[i]>> =>
                      buckets'[i].tokens = buckets[i].tokens - Tok(1) ]_vars

\* More calls than the capacity were admitted on one identifier at one
\* clock value, the last of them by a write that raced.
OverAdmittedByRace ==
    \E i \in TestIdentifiers :
        /\ threads.admitted[i][clock] > rate_limit
        /\ last.identifier = <<i>> /\ last.ret /\ last.now = clock
        /\ buckets[i].tokens >= 0

RECURSIVE AdmittedIn(_, _, _)
AdmittedIn(i, from, to) ==
    IF from > to THEN 0
    ELSE threads.admitted[i][from] + AdmittedIn(i, from + 30, to)

\* C26: with a clock that is never set back, calls made one after another
\* and no reset, the calls admitted for an identifier in any window of T
\* seconds number at most rate_limit + T * rate_limit / 60.
WindowBound ==
    \A i \in TestIdentifiers, from \in Instants, to \in Instants :
        from <= to =>
            AdmittedIn(i, from, to) * 60
                <= rate_limit * 60 + (to - from) * rate_limit

\* A window of positive length in which the bound is met exactly, the
\* latest call having been turned away.
WindowFull ==
    \E i \in TestIdentifiers, from \in Instants, to \in Instants :
        /\ from < to
        /\ AdmittedIn(i, from, to) * 60
               = rate_limit * 60 + (to - from) * rate_limit
        /\ last.op = "check" /\ last.identifier = <<i>> /\ ~last.ret
        /\ last.now = to

ActiveEmailsDistinct ==
    \A p \in DOMAIN db.players, q \in DOMAIN db.players :
        (/\ p # q
         /\ ~db.players[p].deleted
         /\ ~db.players[q].deleted) =>
            db.players[p].email # db.players[q].email

\* A registration that had passed the check was rejected at its commit:
\* by then another registration had committed a player with the email.
RaceLoserRejected ==
    /\ call.op = "register_player"
    /\ call.outcome = Raises(IntegrityError)
    /\ db = call.before
    /\ \E id \in DOMAIN db.players :
          /\ db.players[id].email = call.target[1].email
          /\ ~db.players[id].deleted

\* The email is held by deleted players only.
HeldByDeletedOnly(d, email) ==
    /\ \E id \in DOMAIN d.players : d.players[id].email = email
    /\ \A id \in DOMAIN d.players :
          d.players[id].email = email => d.players[id].deleted

\* C29: soft deletion does not free an email.  register_player with an
\* email that only a deleted player holds is not answered with "Email
\* already registered": the call that returns is one that had passed the
\* check and was pending its commit, and it fails there with the
\* IntegrityError of the unique constraint, the table left as it was; in no
\* step does an email come to be held by a second row.
DeletedEmailStaysTaken ==
    [][/\ \A player_data \in PlayerRegister :
             (/\ HeldByDeletedOnly(db, player_data.email)
              /\ call'.op = "register_player"
              /\ call'.target = <<player_data>>
              /\ call'.before = db
              /\ call' # call) =>
                 /\ call'.outcome = Raises(IntegrityError)
                 /\ CopiesIn(Registering(player_data), sessions')
                       = CopiesIn(Registering(player_data), sessions) - 1
                 /\ db' = db
       /\ \A email \in Emails :
             Cardinality({id \in DOMAIN db'.players :
                             db'.players[id].email = email}) <= 1]_vars

\* A registration with the email of a deleted player got past the check
\* and was rejected at its commit.
DeletedEmailRejected ==
    /\ call.op = "register_player"
    /\ call.outcome = Raises(IntegrityError)
    /\ HeldByDeletedOnly(db, call.target[1].email)
    /\ db = call.before

(***************************************************************************)
(* Properties of the permission checks on deleted leagues (specification   *)
(* SpecPermissions).                                                       *)
(***************************************************************************)
\* C30: for a deleted league can_manage_league is true for the players
\* assigned as its assistants and for nobody else, its organizer included;
\* can_manage_round on a round that is not deleted, of a season of a
\* deleted league, answers the same way.
DeletedLeagueLeftToAssistants ==
    /\ (/\ Asked("can_manage_league")
        /\ Target \in DOMAIN db.leagues
        /\ db.leagues[Target].deleted) =>
           call.outcome = Returns(IsAssistant(Asker, Target))
    /\ (/\ Asked("can_manage_round")
        /\ RoundResolved(Target)
        /\ db.leagues[LeagueOfRound(Target)].deleted) =>
           call.outcome = Returns(IsAssistant(Asker, LeagueOfRound(Target)))

\* An assistant of a deleted league, not its organizer, was told that
\* a round of it is theirs to manage.
AssistantManagesRoundOfDeletedLeague ==
    /\ Asked("can_manage_round")
    /\ RoundResolved(Target)
    /\ db.leagues[LeagueOfRound(Target)].deleted
    /\ db.leagues[LeagueOfRound(Target)].organizer_id # Asker
    /\ IsAssistant(Asker, LeagueOfRound(Target))
    /\ call.outcome = Returns(TRUE)

TypeOK ==
    /\ rate_limit \in 1..MaxRateLimit
    /\ DOMAIN buckets \subseteq Identifiers
    /\ clock \in Instants
    /\ chain.at \in 0..Len(Layers)
    /\ chain.going \in {"down", "up"}
====
